---- MODULE Spec2Model ----
(***************************************************************************)
(* Market Sales Analytics Hub (src/main.py): a Streamlit script that is   *)
(* re-run from the top on every interaction.  The model follows the       *)
(* script tab by tab.  The tabs keep their state in disjoint parts of     *)
(* st.session_state and of the script's locals, so each tab is checked    *)
(* under a specification of its own over the shared header of the script  *)
(* (column lists and role selections):                                    *)
(*   SpecChart   the Dynamic Report chart loop            (lines 131-218) *)
(*   SpecStory   the Storyteller                          (lines 305-365) *)
(*   SpecTrivia  the Trivia Game                          (lines 425-491) *)
(*   SpecData    the sidebar filters and the KPIs         (lines 55-96)   *)
(*   SpecWhatIf  the What-If Analysis over the filtered view              *)
(*                                                        (lines 367-422) *)
(* SpecData, SpecWhatIf and SpecTrivia follow the sessions in which no    *)
(* date column is selected, whose runs skip the date range of lines 59-67. *)
(* Python values are records [kind, v]; column names are pairs            *)
(* <<"num", j>> / <<"cat", j>>, the j-th numeric / non-numeric column.    *)
(***************************************************************************)
EXTENDS Integers, Sequences, FiniteSets, TLC

VARIABLES
    numeric_columns,      \* line 34: list of the numeric column names
    categorical_columns,  \* line 35: list of the non-numeric column names
    date_columns,         \* lines 36, 47: list of the datetime column names
    date_column,          \* lines 41-50
    category_column,      \* line 52
    sales_column,         \* line 53
    df,                   \* the data frame read at line 31 (a sequence of rows)
    filters,              \* lines 71-76: the dict of sidebar selections, in insertion order
    filtered_df,          \* lines 79-81
    kpi_data,             \* lines 89-96
    i,                    \* line 137: the chart loop's index
    plot_counter,         \* line 135
    slots,                \* what each iteration of the chart loop rendered
    notices,              \* number of st.info calls of line 218 in this pass
    warnings,             \* number of st.warning calls of the chart loop in this pass
    bad,                  \* the iterations whose px.* / st.plotly_chart call raises on this data
    story_step,           \* st.session_state["story_step"]
    story_steps,          \* lines 312-336: the list built by the current run
    trivia_score,         \* st.session_state["trivia_score"]
    current_question,     \* st.session_state["current_question"]
    correct_answer,       \* st.session_state["correct_answer"]
    options,              \* st.session_state["options"]
    question_asked,       \* st.session_state["question_asked"]
    user_answer,          \* line 474: the value st.radio returned when Submit was pressed
    whatif_applied,       \* line 378: the What-If button was pressed in the current run
    selected_whatif_column, \* line 375
    percentage_change,    \* line 376
    modified_whatif_df,   \* lines 381-383
    updated_kpi_data      \* lines 394-404

vars == <<numeric_columns, categorical_columns, date_columns, date_column, category_column,
          sales_column, df, filters, filtered_df, kpi_data, i, plot_counter,
          slots, notices, warnings, bad, story_step, story_steps, trivia_score,
          current_question, correct_answer, options, question_asked, user_answer,
          whatif_applied, selected_whatif_column, percentage_change,
          modified_whatif_df, updated_kpi_data>>

roleVars   == <<date_column, category_column, sales_column>>
schemaVars == <<numeric_columns, categorical_columns, date_columns>>
dataVars   == <<df, filters, filtered_df, kpi_data>>
chartVars  == <<i, plot_counter, slots, notices, warnings>>
storyVars  == <<story_step, story_steps>>
triviaVars == <<trivia_score, current_question, correct_answer, options,
                question_asked, user_answer>>
whatifVars == <<whatif_applied, selected_whatif_column, percentage_change,
                modified_whatif_df, updated_kpi_data>>

---------------------------------------------------------------------------
(* Bounds of the model. *)
MaxNum == 5
MaxCat == 5
MaxFail == 1
MaxDataNum == 1
MaxDataCat == 2
MaxRows == 5
MaxPick == 1
MaxScore == 1
MaxWhatIfNum == 2

(* Constants of the program. *)
MaxCharts == 9
NumRules == 7
NumChartCols == 3
TopN == 4

---------------------------------------------------------------------------
(* Python values. *)
None == [kind |-> "none", v |-> 0]
NoCol == <<"none", 0>>

NaN == [kind |-> "nan", v |-> 0]           \* a missing cell
Number(x) == [kind |-> "num", v |-> x]     \* an int or float
Text(x) == [kind |-> "str", v |-> x]       \* the x-th string of the data
Bool(x) == [kind |-> "bool", v |-> x]      \* False (0) or True (1)
Fmt(x) == [kind |-> "fmt", v |-> x]        \* f"{y:.2f}" of a number, x = 100 * y
FmtNaN == [kind |-> "fmt", v |-> -1]       \* f"{nan:.2f}", the string "nan"
NA == [kind |-> "na", v |-> 0]             \* the string "N/A"

(* str(x): a string is returned as it is, any other value becomes the     *)
(* string of its text, which no non-string value equals.                  *)
PyStr(x) ==
    IF x.kind \in {"str", "fmt", "na", "strbool", "strnum", "strnone", "strnan"}
    THEN x
    ELSE [kind |-> "str" \o x.kind, v |-> x.v]

NumCols(n) == [j \in 1..n |-> <<"num", j>>]
CatCols(k) == [j \in 1..k |-> <<"cat", j>>]

Min(a, b) == IF a <= b THEN a ELSE b

Range(s) == {s[j] : j \in 1..Len(s)}

---------------------------------------------------------------------------
(* Tab 5, lines 312-336: the story steps of the current role selection. *)
StepHistogram(sales) ==
    IF sales # NoCol
    THEN <<[question |-> "distribution of sales", template |-> "histogram",
            columns |-> <<sales>>]>>
    ELSE <<>>

StepBar(category, sales) ==
    IF category # NoCol /\ sales # NoCol
    THEN <<[question |-> "average sales by category", template |-> "bar",
            columns |-> <<category, sales>>]>>
    ELSE <<>>

StepLine(date, sales) ==
    IF date # NoCol /\ sales # NoCol
    THEN <<[question |-> "sales over time", template |-> "line",
            columns |-> <<date, sales>>]>>
    ELSE <<>>

StepPie(category) ==
    IF category # NoCol
    THEN <<[question |-> "distribution of category", template |-> "pie",
            columns |-> <<category>>]>>
    ELSE <<>>

(* The steps with the pie chart moved before the line chart. *)
BuildStoryStepsReordered(date, category, sales) ==
    StepHistogram(sales) \o StepBar(category, sales)
        \o StepPie(category) \o StepLine(date, sales)

BuildStorySteps(date, category, sales) ==
    StepHistogram(sales) \o StepBar(category, sales)
        \o StepLine(date, sales) \o StepPie(category)

---------------------------------------------------------------------------
(* Tab 3, lines 137-218: the chart loop. *)
NumSlots == Min(MaxCharts, Len(numeric_columns) + Len(categorical_columns))

Num(j) == numeric_columns[(j % Len(numeric_columns)) + 1]
Cat(j) == categorical_columns[(j % Len(categorical_columns)) + 1]

NoChart == [chart_type |-> "None", inputs |-> <<>>]

(* The chain with the pie branch taken for every index the scatter branch *)
(* leaves, whatever the index is modulo NumRules.                          *)
ChartBranchPieFallback(j) ==
    IF Len(numeric_columns) >= 2 /\ j % NumRules = 0
    THEN [chart_type |-> "Scatter Plot", inputs |-> <<Num(j), Num(j + 1)>>]
    ELSE IF categorical_columns # <<>>
    THEN [chart_type |-> "Pie Chart", inputs |-> <<Cat(j)>>]
    ELSE NoChart

(* The chain with the time series branch entered whenever the date and    *)
(* the sales column are set and no earlier branch is taken, its index     *)
(* test left out.                                                          *)
ChartBranchTimeSeriesAnySlot(j) ==
    IF Len(numeric_columns) >= 2 /\ j % NumRules = 0
    THEN [chart_type |-> "Scatter Plot", inputs |-> <<Num(j), Num(j + 1)>>]
    ELSE IF categorical_columns # <<>> /\ j % NumRules = 1
    THEN [chart_type |-> "Pie Chart", inputs |-> <<Cat(j)>>]
    ELSE IF categorical_columns # <<>> /\ sales_column # NoCol /\ j % NumRules = 2
    THEN [chart_type |-> "Bar Chart (Mean Sales)", inputs |-> <<Cat(j), sales_column>>]
    ELSE IF numeric_columns # <<>> /\ j % NumRules = 3
    THEN [chart_type |-> "Histogram", inputs |-> <<Num(j)>>]
    ELSE IF categorical_columns # <<>> /\ numeric_columns # <<>> /\ j % NumRules = 4
    THEN [chart_type |-> "Box Plot", inputs |-> <<Cat(j), Num(j)>>]
    ELSE IF date_column # NoCol /\ sales_column # NoCol
    THEN [chart_type |-> "Time Series (Sales)", inputs |-> <<date_column, sales_column>>]
    ELSE IF Len(numeric_columns) >= 2 /\ categorical_columns # <<>> /\ j % NumRules = 6
    THEN [chart_type |-> "Scatter Plot (with Category)",
          inputs |-> <<Num(j), Num(j + 1), Cat(j)>>]
    ELSE NoChart

(* The if/elif chain of lines 142-216 for index j: the chart type it sets *)
(* and the columns it passes to plotly.                                    *)
ChartBranch(j) ==
    IF Len(numeric_columns) >= 2 /\ j % NumRules = 0
    THEN [chart_type |-> "Scatter Plot", inputs |-> <<Num(j), Num(j + 1)>>]
    ELSE IF categorical_columns # <<>> /\ j % NumRules = 1
    THEN [chart_type |-> "Pie Chart", inputs |-> <<Cat(j)>>]
    ELSE IF categorical_columns # <<>> /\ sales_column # NoCol /\ j % NumRules = 2
    THEN [chart_type |-> "Bar Chart (Mean Sales)", inputs |-> <<Cat(j), sales_column>>]
    ELSE IF numeric_columns # <<>> /\ j % NumRules = 3
    THEN [chart_type |-> "Histogram", inputs |-> <<Num(j)>>]
    ELSE IF categorical_columns # <<>> /\ numeric_columns # <<>> /\ j % NumRules = 4
    THEN [chart_type |-> "Box Plot", inputs |-> <<Cat(j), Num(j)>>]
    ELSE IF date_column # NoCol /\ sales_column # NoCol /\ j % NumRules = 5
    THEN [chart_type |-> "Time Series (Sales)", inputs |-> <<date_column, sales_column>>]
    ELSE IF Len(numeric_columns) >= 2 /\ categorical_columns # <<>> /\ j % NumRules = 6
    THEN [chart_type |-> "Scatter Plot (with Category)",
          inputs |-> <<Num(j), Num(j + 1), Cat(j)>>]
    ELSE NoChart

(* The loop body with an exception that leaves the loop. *)
ChartSlotAbort ==
    /\ i < NumSlots
    /\ LET b      == ChartBranch(i)
           threw  == b.chart_type # "None" /\ i \in bad
           status == IF b.chart_type = "None" THEN "Skipped"
                     ELSE IF threw THEN "SkippedError" ELSE "Produced"
       IN  /\ slots' = Append(slots, [index |-> i,
                                       column |-> plot_counter % NumChartCols,
                                       chart_type |-> b.chart_type,
                                       inputs |-> b.inputs,
                                       status |-> status])
           /\ plot_counter' = IF status = "Produced" THEN plot_counter + 1
                              ELSE plot_counter
           /\ warnings' = IF threw THEN warnings + 1 ELSE warnings
           /\ notices' = IF b.chart_type = "None" THEN notices + 1 ELSE notices
           /\ i' = IF threw THEN NumSlots ELSE i + 1
    /\ UNCHANGED <<schemaVars, roleVars, dataVars, bad, storyVars, triviaVars, whatifVars>>

(* One iteration of the loop body.  A branch that was entered and whose    *)
(* try block raises runs its except clause (st.warning) and falls through *)
(* to line 217 with chart_type set; a branch that succeeds continues.     *)
ChartSlot ==
    /\ i < NumSlots
    /\ LET b      == ChartBranch(i)
           threw  == b.chart_type # "None" /\ i \in bad
           status == IF b.chart_type = "None" THEN "Skipped"
                     ELSE IF threw THEN "SkippedError" ELSE "Produced"
       IN  /\ slots' = Append(slots, [index |-> i,
                                       column |-> plot_counter % NumChartCols,
                                       chart_type |-> b.chart_type,
                                       inputs |-> b.inputs,
                                       status |-> status])
           /\ plot_counter' = IF status = "Produced" THEN plot_counter + 1
                              ELSE plot_counter
           /\ warnings' = IF threw THEN warnings + 1 ELSE warnings
           /\ notices' = IF b.chart_type = "None" THEN notices + 1 ELSE notices
    /\ i' = i + 1
    /\ UNCHANGED <<schemaVars, roleVars, dataVars, bad, storyVars, triviaVars, whatifVars>>

(* A new run of the script starts the chart loop afresh (lines 134-137). *)
RestartChartPass ==
    /\ i' = 0
    /\ plot_counter' = 0
    /\ slots' = <<>>
    /\ notices' = 0
    /\ warnings' = 0

---------------------------------------------------------------------------
(* Lines 40-53: the three role select boxes.  Changing one re-runs the    *)
(* script, which rebuilds the story steps and restarts the chart loop.    *)

(* Lines 36-50: every run reads the file anew, so date_columns is empty   *)
(* at line 40 and the selection is one of [None] + categorical_columns.   *)
(* A selected column is converted and appended to date_columns; the list  *)
(* categorical_columns of line 35 is left as it is.  pd.to_datetime may   *)
(* raise, and then the date column is reset to None and nothing appended. *)
SelectDate ==
    /\ \E c \in {NoCol} \cup Range(categorical_columns) : \E converts \in BOOLEAN :
          /\ date_column' = IF c # NoCol /\ converts THEN c ELSE NoCol
          /\ date_columns' = IF c # NoCol /\ converts THEN Append(<<>>, c) ELSE <<>>
    /\ date_column' # date_column
    /\ story_steps' = BuildStorySteps(date_column', category_column, sales_column)
    /\ RestartChartPass
    /\ UNCHANGED <<numeric_columns, categorical_columns, category_column,
                   sales_column, dataVars, bad, story_step, triviaVars, whatifVars>>

SelectCategory ==
    /\ \E c \in {NoCol} \cup Range(categorical_columns) : category_column' = c
    /\ category_column' # category_column
    /\ story_steps' = BuildStorySteps(date_column, category_column', sales_column)
    /\ RestartChartPass
    /\ UNCHANGED <<schemaVars, date_column, sales_column, dataVars, bad,
                   story_step, triviaVars, whatifVars>>

SelectSales ==
    /\ \E c \in {NoCol} \cup Range(numeric_columns) : sales_column' = c
    /\ sales_column' # sales_column
    /\ story_steps' = BuildStorySteps(date_column, category_column, sales_column')
    /\ RestartChartPass
    /\ UNCHANGED <<schemaVars, date_column, category_column, dataVars, bad,
                   story_step, triviaVars, whatifVars>>

---------------------------------------------------------------------------
(* Tab 5, lines 339-365: the story cursor. *)
StoryNext ==
    /\ story_steps # <<>>
    /\ story_step < Len(story_steps)
    /\ story_step' = story_step + 1
    /\ UNCHANGED <<schemaVars, roleVars, dataVars, chartVars, bad, story_steps,
                   triviaVars, whatifVars>>

StoryRestart ==
    /\ story_steps # <<>>
    /\ ~(story_step < Len(story_steps))
    /\ story_step' = 0
    /\ UNCHANGED <<schemaVars, roleVars, dataVars, chartVars, bad, story_steps,
                   triviaVars, whatifVars>>

---------------------------------------------------------------------------
(* Line 31: the uploaded table.  Row r of the file holds, in the j-th      *)
(* numeric column, a number or nothing; in the first non-numeric column a  *)
(* string or nothing; in the other non-numeric columns True or False.      *)
(* A row keeps its index label through every selection of rows.            *)
TextPattern == <<3, 3, 1, 2, 0, 4, 5>>

FileCell(r, c) ==
    IF c[1] = "num"
    THEN IF r % 3 = 2 THEN NaN ELSE Number((r + c[2]) % 4)
    ELSE IF c[2] = 1
    THEN LET t == TextPattern[((r - 1) % Len(TextPattern)) + 1]
         IN  IF t = 0 THEN NaN ELSE Text(t)
    ELSE Bool(IF r % 4 = 2 THEN 0 ELSE 1)

AllColumns == Range(numeric_columns) \cup Range(categorical_columns)

ReadCsv(m) == [r \in 1..m |-> [index |-> r, cells |-> [c \in AllColumns |-> FileCell(r, c)]]]

Column(view, c) == [r \in 1..Len(view) |-> view[r].cells[c]]

(* Line 56: pd.to_numeric(..., errors='coerce').fillna(0) on the sales column. *)
ToNumeric(x) == IF x.kind = "num" THEN x ELSE NaN
FillNa(x, y) == IF x.kind = "nan" THEN y ELSE x

CoerceSales(frame, sales) ==
    IF sales = NoCol THEN frame
    ELSE [r \in 1..Len(frame) |->
            [frame[r] EXCEPT !.cells[sales] = FillNa(ToNumeric(@), Number(0))]]

(* Line 81: filtered_df[filtered_df[col].isin(values)] *)
IsIn(view, item) ==
    LET Keep(row) == row.cells[item[1]] \in item[2]
    IN  SelectSeq(view, Keep)

(* The loop with each filter applied to the unfiltered frame. *)
ApplyFiltersLastWins(view, fs) ==
    IF fs = <<>> THEN view ELSE IsIn(view, fs[Len(fs)])

RECURSIVE ApplyFilters(_, _)
(* Lines 79-81: the filters applied one after the other, in dict order. *)
ApplyFilters(view, fs) ==
    IF fs = <<>> THEN view
    ELSE ApplyFilters(IsIn(view, Head(fs)), Tail(fs))

(* Lines 72-76: the dict holds, in the order of categorical_columns, the  *)
(* columns with a non-empty selection.                                     *)
RECURSIVE BuildFilters(_, _)
BuildFilters(cols, selected) ==
    IF cols = <<>> THEN <<>>
    ELSE (IF selected[Head(cols)] # {} THEN <<<<Head(cols), selected[Head(cols)]>>>> ELSE <<>>)
            \o BuildFilters(Tail(cols), selected)

Selection(fs) ==
    [c \in Range(categorical_columns) |->
        IF \E p \in 1..Len(fs) : fs[p][1] = c
        THEN (CHOOSE p \in 1..Len(fs) : fs[p][1] = c)
        ELSE 0]

Selected(fs) ==
    [c \in Range(categorical_columns) |->
        IF Selection(fs)[c] = 0 THEN {} ELSE fs[Selection(fs)[c]][2]]

(* DuckDB aggregates over a registered frame (lines 91-94); NULL is None. *)
RECURSIVE SumCells(_)
SumCells(cellseq) ==
    IF cellseq = <<>> THEN 0
    ELSE (IF Head(cellseq).kind = "num" THEN Head(cellseq).v ELSE 0) + SumCells(Tail(cellseq))

NonNull(cellseq) == {p \in 1..Len(cellseq) : cellseq[p].kind # "nan"}

SqlSum(cellseq) == IF NonNull(cellseq) = {} THEN None ELSE Number(SumCells(cellseq))
SqlCount(view) == Number(Len(view))
SqlCountDistinct(cellseq) == Number(Cardinality({cellseq[p] : p \in NonNull(cellseq)}))

(* The aggregate used as it comes. *)
OrZeroMissing(x) == x

(* x or 0 *)
OrZero(x) == IF x = None \/ x = Number(0) THEN Number(0) ELSE x

(* Lines 89-94; a key absent from the dict is None here. *)
ComputeKpi(view, category, sales) ==
    [total_sales |-> IF sales # NoCol THEN OrZero(SqlSum(Column(view, sales))) ELSE None,
     total_transactions |-> OrZero(SqlCount(view)),
     unique_categories |-> IF category # NoCol
                           THEN OrZero(SqlCountDistinct(Column(view, category)))
                           ELSE None]

(* A key that the dict does not hold is None; before the button is pressed *)
(* there is no dict of updated KPIs at all.                                *)
NoKpi == [total_sales |-> None, total_transactions |-> None,
          unique_categories |-> None]

(* Line 378: st.button returns False in a run that another widget started, *)
(* and the What-If block is skipped: nothing of it is computed or shown.   *)
(* The select box and the number input keep their values.                  *)
SkipWhatIf ==
    /\ whatif_applied' = FALSE
    /\ modified_whatif_df' = <<>>
    /\ updated_kpi_data' = NoKpi
    /\ UNCHANGED <<selected_whatif_column, percentage_change>>

(* One run of lines 55-96 with the given selections: the frame after the   *)
(* coercion, the filtered frame and the KPIs.                              *)
RunData(sales, category, fs) ==
    LET frame == CoerceSales(df, sales)
        view  == ApplyFilters(frame, fs)
    IN  /\ filters' = fs
        /\ filtered_df' = view
        /\ kpi_data' = ComputeKpi(view, category, sales)
        /\ SkipWhatIf

(* Lines 73-74: the values offered for a column are those of the frame,    *)
(* and the user picks some of them.                                        *)
Picks(frame, c) ==
    {S \in SUBSET Range(Column(frame, c)) : Cardinality(S) <= MaxPick}

SetFilter ==
    /\ \E c \in Range(categorical_columns) :
         \E S \in Picks(CoerceSales(df, sales_column), c) :
            /\ S # Selected(filters)[c]
            /\ RunData(sales_column, category_column,
                       BuildFilters(categorical_columns,
                                    [Selected(filters) EXCEPT ![c] = S]))
    /\ UNCHANGED <<schemaVars, roleVars, df, chartVars, bad, storyVars, triviaVars>>

SelectSalesData ==
    /\ \E c \in {NoCol} \cup Range(numeric_columns) :
          /\ c # sales_column
          /\ sales_column' = c
          /\ RunData(c, category_column, filters)
    /\ UNCHANGED <<schemaVars, date_column, category_column, df, chartVars, bad,
                   storyVars, triviaVars>>

SelectCategoryData ==
    /\ \E c \in {NoCol} \cup Range(categorical_columns) :
          /\ c # category_column
          /\ category_column' = c
          /\ RunData(sales_column, c, filters)
    /\ UNCHANGED <<schemaVars, date_column, sales_column, df, chartVars, bad,
                   storyVars, triviaVars>>

---------------------------------------------------------------------------
(* Tab 6, lines 367-422: What-If Analysis. *)

(* Line 376: the values of st.number_input that the model enters.  For     *)
(* these the factor 1 + p / 100 (0.0, 1.0, 2.0) and every product are      *)
(* exact in binary floating point.                                         *)
PercentChoices == {-100, 0, 100}

(* Lines 382-383: x * change_factor with change_factor = 1 + p / 100, as   *)
(* the fraction (100 + p) / 100.  A missing value times any factor is      *)
(* missing.                                                                *)
Times(x, p) ==
    IF x.kind = "num" THEN Number((x.v * (100 + p)) \div 100) ELSE x

(* Lines 381-383: the copy of the view with the column multiplied. *)
ModifiedWhatIf(view, col, p) ==
    [r \in 1..Len(view) |-> [view[r] EXCEPT !.cells[col] = Times(@, p)]]

(* Lines 394-402: the KPIs of the modified frame on a connection of its    *)
(* own; the measure and category columns are those of the role selection.  *)
UpdatedKpi(modified, category, sales) ==
    [total_sales |-> IF sales # NoCol THEN OrZero(SqlSum(Column(modified, sales))) ELSE None,
     total_transactions |-> OrZero(SqlCount(modified)),
     unique_categories |-> IF category # NoCol
                           THEN OrZero(SqlCountDistinct(Column(modified, category)))
                           ELSE None]

(* Lines 372-404: with a column and a percentage entered, the button is    *)
(* pressed.  The run recomputes the view and the KPIs from the same        *)
(* widgets, so they are what they were.                                    *)
ApplyWhatIf ==
    /\ numeric_columns # <<>>
    /\ \E col \in Range(numeric_columns), p \in PercentChoices :
          /\ selected_whatif_column' = col
          /\ percentage_change' = p
          /\ modified_whatif_df' = ModifiedWhatIf(filtered_df, col, p)
          /\ updated_kpi_data' = UpdatedKpi(modified_whatif_df', category_column,
                                            sales_column)
    /\ whatif_applied' = TRUE
    /\ UNCHANGED <<schemaVars, roleVars, dataVars, chartVars, bad, storyVars,
                   triviaVars>>

---------------------------------------------------------------------------
(* Tab 7, lines 440-463: generate_trivia_question.  random.choice and      *)
(* random.shuffle are choices; the operator gives the set of results.      *)
RECURSIVE Orderings(_)
Orderings(S) ==
    IF S = {} THEN {<<>>}
    ELSE UNION {{<<x>> \o o : o \in Orderings(S \ {x})} : x \in S}

Perms(seq) == {[p \in 1..Len(seq) |-> seq[f[p]]] : f \in Orderings(1..Len(seq))}

Present(cellseq) == SelectSeq(cellseq, LAMBDA x : x.kind # "nan")

RECURSIVE SortCells(_)
SortCells(cellseq) ==
    IF cellseq = <<>> THEN <<>>
    ELSE LET p == CHOOSE q \in 1..Len(cellseq) :
                     \A t \in 1..Len(cellseq) : cellseq[q].v <= cellseq[t].v
         IN  <<cellseq[p]>> \o
             SortCells([t \in 1..(Len(cellseq) - 1) |->
                          IF t < p THEN cellseq[t] ELSE cellseq[t + 1]])

(* f"{x:.2f}" of the fraction a / b: round half to even at two decimals. *)
Format2(a, b) ==
    LET q == (100 * a) \div b
        r == (100 * a) % b
    IN  Fmt(IF 2 * r < b THEN q
            ELSE IF 2 * r > b THEN q + 1
            ELSE IF q % 2 = 0 THEN q ELSE q + 1)

(* Series.mean / median / min / max skip missing values, nan if none is left. *)
MeanText(cellseq) ==
    LET xs == Present(cellseq)
    IN  IF xs = <<>> THEN FmtNaN ELSE Format2(SumCells(xs), Len(xs))

MedianText(cellseq) ==
    LET xs == SortCells(Present(cellseq))
        h  == Len(xs) \div 2
    IN  IF xs = <<>> THEN FmtNaN
        ELSE IF Len(xs) % 2 = 1 THEN Format2(xs[h + 1].v, 1)
        ELSE Format2(xs[h].v + xs[h + 1].v, 2)

MinText(cellseq) ==
    LET xs == SortCells(Present(cellseq))
    IN  IF xs = <<>> THEN FmtNaN ELSE Format2(xs[1].v, 1)

MaxText(cellseq) ==
    LET xs == SortCells(Present(cellseq))
    IN  IF xs = <<>> THEN FmtNaN ELSE Format2(xs[Len(xs)].v, 1)

CountOf(cellseq, x) == Cardinality({p \in 1..Len(cellseq) : cellseq[p] = x})

Distinct(cellseq) == {cellseq[p] : p \in NonNull(cellseq)}

(* Series.mode(): the most frequent values, missing ones dropped, sorted. *)
Modes(cellseq) ==
    {x \in Distinct(cellseq) :
        \A y \in Distinct(cellseq) : CountOf(cellseq, y) <= CountOf(cellseq, x)}

FirstMode(cellseq) ==
    CHOOSE x \in Modes(cellseq) : \A y \in Modes(cellseq) : x.v <= y.v

(* Series.value_counts().nlargest(4).index.tolist(): the distinct values   *)
(* by falling count, equal counts in an order pandas does not fix, cut to  *)
(* the first four.                                                         *)
ValueCountsOrders(cellseq) ==
    {o \in Orderings(Distinct(cellseq)) :
        \A a \in 1..(Len(o) - 1) : CountOf(cellseq, o[a]) >= CountOf(cellseq, o[a + 1])}

NLargest(o) == SubSeq(o, 1, Min(TopN, Len(o)))

NoQuestion == [raised |-> FALSE, question |-> None, correct_answer |-> None,
               options |-> <<>>]
Raised == [raised |-> TRUE, question |-> None, correct_answer |-> None,
           options |-> <<>>]

AverageOutcomesOf(view, col) ==
    LET cells == Column(view, col)
        correct == MeanText(cells)
    IN  {[raised |-> FALSE,
          question |-> [kind |-> "average", v |-> col[2]],
          correct_answer |-> correct,
          options |-> opts] :
            opts \in Perms(<<correct, MedianText(cells), MinText(cells), MaxText(cells)>>)}

AverageOutcomes(view, num_cols) ==
    UNION {AverageOutcomesOf(view, col) : col \in Range(num_cols)}

ValueCountsOutcomesOf(view, col) ==
    LET cells == Column(view, col)
    IN  IF cells = <<>>
        THEN {[raised |-> FALSE, question |-> [kind |-> "value_counts", v |-> col[2]],
               correct_answer |-> NA, options |-> <<>>]}
        ELSE IF Modes(cells) = {}
        THEN {Raised}
        ELSE LET top_value == FirstMode(cells)
                 Forced(l) == IF top_value \in Range(l) THEN l
                              ELSE [l EXCEPT ![Len(l)] = top_value]
                 Lists == {Forced(NLargest(o)) : o \in ValueCountsOrders(cells)}
             IN  {[raised |-> FALSE,
                   question |-> [kind |-> "value_counts", v |-> col[2]],
                   correct_answer |-> top_value,
                   options |-> opts] : opts \in UNION {Perms(l) : l \in Lists}}

ValueCountsOutcomes(view, cat_cols) ==
    UNION {ValueCountsOutcomesOf(view, col) : col \in Range(cat_cols)}

GenerateTriviaQuestion(view, num_cols, cat_cols) ==
    IF num_cols = <<>> /\ cat_cols = <<>> THEN {NoQuestion}
    ELSE UNION {IF question_type = "average" /\ num_cols # <<>>
                THEN AverageOutcomes(view, num_cols)
                ELSE IF question_type = "value_counts" /\ cat_cols # <<>>
                THEN ValueCountsOutcomes(view, cat_cols)
                ELSE {NoQuestion} : question_type \in {"average", "value_counts"}}

(* Lines 465-470: a run with no question asked generates one.  If the     *)
(* generator raises, the run ends there with the session state as it was.  *)
TriviaRun ==
    /\ ~question_asked
    /\ numeric_columns # <<>> \/ categorical_columns # <<>>
    /\ \E g \in GenerateTriviaQuestion(filtered_df, numeric_columns, categorical_columns) :
          IF g.raised
          THEN UNCHANGED <<current_question, correct_answer, options, question_asked>>
          ELSE /\ current_question' = g.question
               /\ correct_answer' = g.correct_answer
               /\ options' = g.options
               /\ question_asked' = TRUE
    /\ user_answer' = None
    /\ UNCHANGED <<schemaVars, roleVars, dataVars, chartVars, bad, storyVars, whatifVars,
                   trivia_score>>

(* Submit with the option compared as it is, without str(). *)
SubmitTriviaRawCompare ==
    /\ current_question # None
    /\ trivia_score < MaxScore
    /\ \E selected \in (IF options = <<>> THEN {None} ELSE Range(options)) :
          /\ user_answer' = selected
          /\ trivia_score' = IF selected = correct_answer
                             THEN trivia_score + 1 ELSE trivia_score
    /\ question_asked' = FALSE
    /\ current_question' = None
    /\ UNCHANGED <<schemaVars, roleVars, dataVars, chartVars, bad, storyVars, whatifVars,
                   correct_answer, options>>

(* Lines 472-484: st.radio returns one of the options (None if there is    *)
(* none); Submit compares it with str(correct_answer).                     *)
SubmitTrivia ==
    /\ current_question # None
    /\ trivia_score < MaxScore
    /\ \E selected \in (IF options = <<>> THEN {None} ELSE Range(options)) :
          /\ user_answer' = selected
          /\ trivia_score' = IF selected = PyStr(correct_answer)
                             THEN trivia_score + 1 ELSE trivia_score
    /\ question_asked' = FALSE
    /\ current_question' = None
    /\ UNCHANGED <<schemaVars, roleVars, dataVars, chartVars, bad, storyVars, whatifVars,
                   correct_answer, options>>

(* Lines 487-491. *)
PlayAgain ==
    /\ current_question = None
    /\ numeric_columns = <<>> /\ categorical_columns = <<>>
    /\ trivia_score' = 0
    /\ question_asked' = FALSE
    /\ UNCHANGED <<schemaVars, roleVars, dataVars, chartVars, bad, storyVars, whatifVars,
                   current_question, correct_answer, options, user_answer>>

---------------------------------------------------------------------------
(* Initial states: the first run after the upload, nothing selected. *)
InitRoles ==
    /\ date_column = NoCol
    /\ category_column = NoCol
    /\ sales_column = NoCol

InitChartVars ==
    /\ i = 0
    /\ plot_counter = 0
    /\ slots = <<>>
    /\ notices = 0
    /\ warnings = 0

InitStoryVars ==
    /\ story_step = 0
    /\ story_steps = <<>>

InitTriviaVars ==
    /\ trivia_score = 0
    /\ current_question = None
    /\ correct_answer = None
    /\ options = <<>>
    /\ question_asked = FALSE
    /\ user_answer = None

(* Line 375: the select box shows the first numeric column; line 376:     *)
(* value=0.0.                                                              *)
InitWhatIfVars ==
    /\ whatif_applied = FALSE
    /\ selected_whatif_column =
          (IF numeric_columns = <<>> THEN NoCol ELSE numeric_columns[1])
    /\ percentage_change = 0
    /\ modified_whatif_df = <<>>
    /\ updated_kpi_data = NoKpi

NoData ==
    /\ df = <<>>
    /\ filters = <<>>
    /\ filtered_df = <<>>
    /\ kpi_data = ComputeKpi(<<>>, NoCol, NoCol)

(* read_csv gives a file without rows object columns only. *)
InitData ==
    /\ \E n \in 0..MaxDataNum, k \in 0..MaxDataCat, m \in 0..MaxRows :
          /\ m = 0 => n = 0
          /\ n + k = 0 => m = 0
          /\ numeric_columns = NumCols(n)
          /\ categorical_columns = CatCols(k)
          /\ df = ReadCsv(m)
    /\ date_columns = <<>>
    /\ InitRoles
    /\ filters = <<>>
    /\ filtered_df = df
    /\ kpi_data = ComputeKpi(df, NoCol, NoCol)
    /\ InitChartVars
    /\ bad = {}
    /\ InitStoryVars
    /\ InitTriviaVars
    /\ InitWhatIfVars

(* The trivia game over the file without rows or with MaxRows rows, and   *)
(* any view of it that the sidebar filters can produce.                   *)
InitTrivia ==
    /\ \E n \in 0..MaxDataNum, k \in 0..MaxDataCat, m \in {0, MaxRows} :
          /\ m = 0 => n = 0
          /\ n + k = 0 => m = 0
          /\ numeric_columns = NumCols(n)
          /\ categorical_columns = CatCols(k)
          /\ df = ReadCsv(m)
    /\ date_columns = <<>>
    /\ InitRoles
    /\ \E sel \in [Range(categorical_columns) ->
                      UNION {Picks(df, c) : c \in Range(categorical_columns)}] :
          /\ \A c \in Range(categorical_columns) : sel[c] \in Picks(df, c)
          /\ filters = BuildFilters(categorical_columns, sel)
    /\ filtered_df = ApplyFilters(df, filters)
    /\ kpi_data = ComputeKpi(filtered_df, NoCol, NoCol)
    /\ InitChartVars
    /\ bad = {}
    /\ InitStoryVars
    /\ InitTriviaVars
    /\ InitWhatIfVars

NextTrivia == TriviaRun \/ SubmitTrivia \/ PlayAgain

SpecTrivia == InitTrivia /\ [][NextTrivia]_vars

NextData == SetFilter \/ SelectSalesData \/ SelectCategoryData

SpecData == InitData /\ [][NextData]_vars

(* The What-If tab over a file with up to MaxWhatIfNum numeric columns. *)
InitWhatIf ==
    /\ \E n \in 0..MaxWhatIfNum, k \in 0..MaxDataCat, m \in 0..MaxRows :
          /\ m = 0 => n = 0
          /\ n + k = 0 => m = 0
          /\ numeric_columns = NumCols(n)
          /\ categorical_columns = CatCols(k)
          /\ df = ReadCsv(m)
    /\ date_columns = <<>>
    /\ InitRoles
    /\ filters = <<>>
    /\ filtered_df = df
    /\ kpi_data = ComputeKpi(df, NoCol, NoCol)
    /\ InitChartVars
    /\ bad = {}
    /\ InitStoryVars
    /\ InitTriviaVars
    /\ InitWhatIfVars

NextWhatIf == ApplyWhatIf \/ SetFilter \/ SelectSalesData \/ SelectCategoryData

SpecWhatIf == InitWhatIf /\ [][NextWhatIf]_vars

InitSchema ==
    \E n \in 0..MaxNum, k \in 0..MaxCat :
        /\ numeric_columns = NumCols(n)
        /\ categorical_columns = CatCols(k)
        /\ date_columns = <<>>

InitChart ==
    /\ InitSchema
    /\ InitRoles
    /\ NoData
    /\ InitChartVars
    /\ bad \in {s \in SUBSET (0..(NumSlots - 1)) : Cardinality(s) <= MaxFail}
    /\ InitStoryVars
    /\ InitTriviaVars
    /\ InitWhatIfVars

NextChart == ChartSlot \/ SelectDate \/ SelectSales

SpecChart == InitChart /\ [][NextChart]_vars

InitStory ==
    /\ InitSchema
    /\ InitRoles
    /\ NoData
    /\ InitChartVars
    /\ bad = {}
    /\ InitStoryVars
    /\ InitTriviaVars
    /\ InitWhatIfVars

NextStory == SelectDate \/ SelectCategory \/ SelectSales \/ StoryNext \/ StoryRestart

SpecStory == InitStory /\ [][NextStory]_vars

---------------------------------------------------------------------------
(* The Chart Selector as the specification words it: the rule table. *)
nNum == Len(numeric_columns)
kCat == Len(categorical_columns)
ClaimNumSlots == IF nNum + kCat < 9 THEN nNum + kCat ELSE 9

ClaimPre(r) ==
    CASE r = 0 -> nNum >= 2
      [] r = 1 -> kCat >= 1
      [] r = 2 -> kCat >= 1 /\ sales_column # NoCol
      [] r = 3 -> nNum >= 1
      [] r = 4 -> kCat >= 1 /\ nNum >= 1
      [] r = 5 -> date_column # NoCol /\ sales_column # NoCol
      [] r = 6 -> nNum >= 2 /\ kCat >= 1

ClaimTemplate(r) ==
    CASE r = 0 -> "Scatter Plot"
      [] r = 1 -> "Pie Chart"
      [] r = 2 -> "Bar Chart (Mean Sales)"
      [] r = 3 -> "Histogram"
      [] r = 4 -> "Box Plot"
      [] r = 5 -> "Time Series (Sales)"
      [] r = 6 -> "Scatter Plot (with Category)"

ClaimNumeric(j) == <<"num", (j % nNum) + 1>>
ClaimCategorical(j) == <<"cat", (j % kCat) + 1>>

ClaimInputs(j) ==
    CASE j % 7 = 0 -> <<ClaimNumeric(j), ClaimNumeric(j + 1)>>
      [] j % 7 = 1 -> <<ClaimCategorical(j)>>
      [] j % 7 = 2 -> <<ClaimCategorical(j), sales_column>>
      [] j % 7 = 3 -> <<ClaimNumeric(j)>>
      [] j % 7 = 4 -> <<ClaimCategorical(j), ClaimNumeric(j)>>
      [] j % 7 = 5 -> <<date_column, sales_column>>
      [] j % 7 = 6 -> <<ClaimNumeric(j), ClaimNumeric(j + 1), ClaimCategorical(j)>>

PassComplete == ~ENABLED ChartSlot

(* C1: in a pass the slots 0 .. min(9, n+k)-1 are attempted once each in   *)
(* increasing order; slot i attempts the template of rule i mod 7, with    *)
(* the inputs numeric[i mod n], numeric[(i+1) mod n], categorical[i mod k] *)
(* (and the selected measure and date columns), exactly when that rule's   *)
(* precondition holds, and is otherwise Skipped with no template at all;   *)
(* with 2 numeric columns and no categorical one, slot 0 is the scatter    *)
(* plot of (numeric[0], numeric[1]) and slot 1 is Skipped.                 *)
C1_SlotsFollowRuleTable ==
    /\ Len(slots) = i
    /\ i <= ClaimNumSlots
    /\ PassComplete => Len(slots) = ClaimNumSlots
    /\ \A p \in 1..Len(slots) :
          /\ slots[p].index = p - 1
          /\ IF ClaimPre((p - 1) % 7)
             THEN /\ slots[p].chart_type = ClaimTemplate((p - 1) % 7)
                  /\ slots[p].inputs = ClaimInputs(p - 1)
                  /\ slots[p].status \in {"Produced", "SkippedError"}
             ELSE /\ slots[p].chart_type = "None"
                  /\ slots[p].inputs = <<>>
                  /\ slots[p].status = "Skipped"
    /\ (nNum = 2 /\ kCat = 0 /\ PassComplete) =>
          /\ Len(slots) = 2
          /\ slots[1].chart_type = "Scatter Plot"
          /\ slots[1].inputs = <<<<"num", 1>>, <<"num", 2>>>>
          /\ slots[2].status = "Skipped"

(* C1 witness: a complete pass capped at 9 slots, whose slots 7 and 8 are  *)
(* bound to rules 0 and 1 again, with a produced and a skipped slot.       *)
C1_Witness ==
    /\ nNum + kCat > 9
    /\ PassComplete
    /\ Len(slots) = 9
    /\ slots[8].chart_type = "Scatter Plot"
    /\ slots[9].chart_type = "Pie Chart"
    /\ \E p \in 1..9 : slots[p].status = "Skipped"
    /\ \E p \in 1..9 : slots[p].status = "Produced"

(* C2: a pass in which no slot's rule qualifies emits exactly one "no     *)
(* suitable chart" notice, also when there are no columns and no slot is   *)
(* attempted.                                                              *)
C2_SingleNoticeWhenNothingQualifies ==
    (PassComplete /\ \A j \in 0..(ClaimNumSlots - 1) : ~ClaimPre(j % 7))
        => (Len(slots) = ClaimNumSlots /\ notices = 1)

(* C3: a slot whose chart raises ends Skipped with a diagnostic, and every *)
(* slot resolves to the template and outcome that its own index, the       *)
(* columns and its own data give it, whatever happened in earlier slots;   *)
(* the pass ends only after slot min(9, n+k)-1.                            *)
ClaimOutcome(j) ==
    IF ~ClaimPre(j % 7) THEN "Skipped"
    ELSE IF j \in bad THEN "SkippedError" ELSE "Produced"

C3_FailureIsContainedInItsSlot ==
    /\ \A p \in 1..Len(slots) :
          /\ slots[p].index = p - 1
          /\ slots[p].status = ClaimOutcome(p - 1)
          /\ slots[p].chart_type =
                (IF ClaimPre((p - 1) % 7) THEN ClaimTemplate((p - 1) % 7) ELSE "None")
    /\ warnings = Cardinality({p \in 1..Len(slots) : slots[p].status = "SkippedError"})
    /\ PassComplete => Len(slots) = ClaimNumSlots

(* C3 witness: a complete pass in which a slot raised and a later slot     *)
(* was produced.                                                           *)
C3_Witness ==
    /\ PassComplete
    /\ \E p, q \in 1..Len(slots) :
          /\ p < q
          /\ slots[p].status = "SkippedError"
          /\ slots[q].status = "Produced"

---------------------------------------------------------------------------
(* C4: the story cursor stays within 0 .. len(steps) after any sequence of *)
(* Next, Restart and role-selection changes.                               *)
C4_CursorWithinSteps ==
    /\ 0 <= story_step
    /\ story_step <= Len(story_steps)

(* C5: the story is the subsequence of [histogram (measure), bar (category *)
(* and measure), line (date and measure), pie (category)] whose gating     *)
(* roles are set, in that order and with nothing else; with only the       *)
(* measure set it is the histogram alone.                                  *)
RolesSet ==
    {r \in {"date", "category", "measure"} :
        CASE r = "date" -> date_column # NoCol
          [] r = "category" -> category_column # NoCol
          [] r = "measure" -> sales_column # NoCol}

GatedSteps ==
    << [template |-> "histogram", needs |-> {"measure"}],
       [template |-> "bar", needs |-> {"category", "measure"}],
       [template |-> "line", needs |-> {"date", "measure"}],
       [template |-> "pie", needs |-> {"category"}] >>

Gated(e) == e.needs \subseteq RolesSet

ClaimStory == SelectSeq(GatedSteps, Gated)

C5_StoryIsGatedSubsequence ==
    /\ Len(story_steps) = Len(ClaimStory)
    /\ \A p \in 1..Len(story_steps) : story_steps[p].template = ClaimStory[p].template
    /\ RolesSet = {"measure"} =>
          (Len(story_steps) = 1 /\ story_steps[1].template = "histogram")

(* C5 witness: date and measure set, category unset, after the story was   *)
(* rebuilt: two steps, the second one the line chart.                      *)
C5_Witness ==
    /\ RolesSet = {"date", "measure"}
    /\ Len(story_steps) = 2
    /\ story_steps[2].template = "line"

---------------------------------------------------------------------------
(* C6: every generated question has exactly 4 options, the correct answer  *)
(* among them; for a most-frequent-category question the answer is a most  *)
(* frequent value of the column.                                           *)
QuestionCells ==
    Column(filtered_df, <<"cat", current_question.v>>)

C6_FourOptionsWithCorrectAnswer ==
    current_question # None =>
        /\ Len(options) = 4
        /\ correct_answer \in Range(options)
        /\ current_question.kind = "value_counts" => correct_answer \in Modes(QuestionCells)

(* C7: with at least one numeric or categorical column, a generation       *)
(* request always yields a question: the session is never left with a      *)
(* question marked as asked and no current question.                       *)
C7_EligibleColumnYieldsQuestion ==
    (question_asked /\ (numeric_columns # <<>> \/ categorical_columns # <<>>))
        => current_question # None

(* C8: a question takes one submission.  Submit adds 1 to the score when   *)
(* the selected option equals str(correct answer) and nothing otherwise,   *)
(* and discards the question so that the next run generates one; while a   *)
(* question is active, neither the score nor the question changes in any   *)
(* other way.                                                              *)
ClaimStr(x) ==
    CASE x.kind = "bool" -> [kind |-> "strbool", v |-> x.v]
      [] x.kind = "none" -> [kind |-> "strnone", v |-> x.v]
      [] x.kind = "num"  -> [kind |-> "strnum", v |-> x.v]
      [] x.kind = "nan"  -> [kind |-> "strnan", v |-> x.v]
      [] OTHER -> x

C8_OneSubmissionPerQuestion ==
    [][ /\ (current_question # None /\ current_question' = None) =>
              /\ user_answer' \in (IF options = <<>> THEN {None} ELSE Range(options))
              /\ trivia_score' = trivia_score +
                    (IF user_answer' = ClaimStr(correct_answer) THEN 1 ELSE 0)
              /\ question_asked' = FALSE
        /\ (current_question # None /\ current_question' # None) =>
              /\ current_question' = current_question
              /\ trivia_score' = trivia_score
        /\ (current_question = None /\ current_question' # None) =>
              /\ ~question_asked
              /\ trivia_score' = trivia_score ]_vars

(* C8 witness: a correct answer was submitted: the score is 1 and the      *)
(* question is discarded, to be regenerated by the next run.               *)
C8_Witness ==
    /\ trivia_score = 1
    /\ current_question = None
    /\ ~question_asked
    /\ user_answer = ClaimStr(correct_answer)
    /\ user_answer \in Range(options)

---------------------------------------------------------------------------
(* C9: transactionCount is the number of rows of the view and, with a      *)
(* measure column set, totalMeasure is the sum of that column over the     *)
(* rows of the view, a missing or non-numeric value of the file counting   *)
(* as 0; both are 0 on an empty view.                                      *)
RECURSIVE ClaimSum(_)
ClaimSum(rowset) ==
    IF rowset = {} THEN 0
    ELSE LET r == CHOOSE x \in rowset : TRUE
             raw == df[r].cells[sales_column]
         IN  (IF raw.kind = "num" THEN raw.v ELSE 0) + ClaimSum(rowset \ {r})

ViewRows == {filtered_df[p].index : p \in 1..Len(filtered_df)}

C9_KpisOfTheView ==
    /\ kpi_data.total_transactions = Number(Len(filtered_df))
    /\ sales_column # NoCol => kpi_data.total_sales = Number(ClaimSum(ViewRows))
    /\ sales_column = NoCol => kpi_data.total_sales = None
    /\ filtered_df = <<>> =>
          /\ kpi_data.total_transactions = Number(0)
          /\ sales_column # NoCol => kpi_data.total_sales = Number(0)

(* C9 witness: a measure column is set, a filter is active and the view    *)
(* holds a row whose measure is missing in the file, beside rows that add  *)
(* up to a positive total.                                                 *)
C9_Witness ==
    /\ sales_column # NoCol
    /\ filters # <<>>
    /\ Len(filtered_df) < Len(df)
    /\ \E r \in ViewRows : df[r].cells[sales_column] = NaN
    /\ kpi_data.total_sales.v > 0

(* C10: the view is exactly the rows that satisfy every per-column         *)
(* membership predicate; applying the filters of one set in another order  *)
(* gives the same view, and so does applying a second filter set before    *)
(* or after the first.                                                     *)
Satisfies(row, fs) == \A p \in 1..Len(fs) : row.cells[fs[p][1]] \in fs[p][2]

OtherItems ==
    UNION {{<<c, S>> : S \in (Picks(df, c) \ {{}})} : c \in Range(categorical_columns)}

OtherFilterSets ==
    {<<x>> : x \in OtherItems} \cup
    {<<x, y>> : x \in {z \in OtherItems : z[1] = <<"cat", 1>>},
                y \in {z \in OtherItems : z[1] # <<"cat", 1>>}}

C10_FiltersCommute ==
    LET frame == CoerceSales(df, sales_column)
        Ok(row) == Satisfies(row, filters)
    IN  /\ filtered_df = SelectSeq(frame, Ok)
        /\ \A fs \in Perms(filters) : ApplyFilters(frame, fs) = filtered_df
        /\ \A F2 \in OtherFilterSets :
              ApplyFilters(filtered_df, F2) = ApplyFilters(ApplyFilters(frame, F2), filters)

(* C10 witness: two per-column filters are active and keep some rows but   *)
(* not all, each of them dropping a row the other keeps.                   *)
C10_Witness ==
    /\ Len(filters) = 2
    /\ 0 < Len(filtered_df)
    /\ Len(filtered_df) < Len(IsIn(df, filters[1]))
    /\ Len(filtered_df) < Len(IsIn(df, filters[2]))

---------------------------------------------------------------------------
(* C11: for any filtered view and any numeric column selected for What-If, *)
(* applying p = 0 yields a recomputed KPISet equal to the baseline KPISet, *)
(* and applying p = -100 makes every value of the transformed column zero  *)
(* and the recomputed totalMeasure equal to 0.                             *)
TransformedColumn == Column(modified_whatif_df, selected_whatif_column)

C11_WhatIfZeroAndMinusHundred ==
    whatif_applied =>
        /\ percentage_change = 0 => updated_kpi_data = kpi_data
        /\ percentage_change = -100 =>
              /\ \A r \in 1..Len(TransformedColumn) : TransformedColumn[r] = Number(0)
              /\ updated_kpi_data.total_sales = Number(0)

---------------------------------------------------------------------------
(* C12: at every point of a session each column has exactly one role among *)
(* Numeric, Categorical, Temporal and Unclassified: the role lists used by *)
(* the filters, the chart selector and the trivia are pairwise disjoint,   *)
(* and a column promoted to the date column is Temporal and no longer      *)
(* Categorical afterwards.                                                 *)
RolesOf(c) ==
    {role \in {"Numeric", "Categorical", "Temporal"} :
        CASE role = "Numeric" -> c \in Range(numeric_columns)
          [] role = "Categorical" -> c \in Range(categorical_columns)
          [] role = "Temporal" -> c \in Range(date_columns)}

C12_OneRolePerColumn ==
    /\ \A c \in AllColumns : Cardinality(RolesOf(c)) <= 1
    /\ Range(numeric_columns) \cap Range(categorical_columns) = {}
    /\ Range(numeric_columns) \cap Range(date_columns) = {}
    /\ Range(categorical_columns) \cap Range(date_columns) = {}
    /\ date_column # NoCol =>
          /\ date_column \in Range(date_columns)
          /\ date_column \notin Range(categorical_columns)

---------------------------------------------------------------------------
(* C13: in a pass the template of rule r is produced only at a slot index  *)
(* i < min(9, n+k) with i mod 7 = r; hence rules 2 to 6 are each produced  *)
(* at most once per pass and rules 0 and 1 at most twice (the second time  *)
(* at slots 7 and 8), and the time series line chart (rule 5) is produced  *)
(* only when n+k >= 6, whatever the date and measure selections are.       *)
ProducedAt(r) ==
    {slots[p].index : p \in {q \in 1..Len(slots) :
                                /\ slots[q].status = "Produced"
                                /\ slots[q].chart_type = ClaimTemplate(r)}}

C13_RuleOnlyAtItsResidue ==
    /\ \A p \in 1..Len(slots) :
          slots[p].status = "Produced" =>
              \E r \in 0..6 : slots[p].chart_type = ClaimTemplate(r)
    /\ \A r \in 0..6 :
          /\ \A j \in ProducedAt(r) : j < ClaimNumSlots /\ j % 7 = r
          /\ Cardinality({p \in 1..Len(slots) :
                            /\ slots[p].status = "Produced"
                            /\ slots[p].chart_type = ClaimTemplate(r)})
                <= (IF r <= 1 THEN 2 ELSE 1)
          /\ ProducedAt(r) \subseteq {r, r + 7}
          /\ r >= 2 => ProducedAt(r) \subseteq {r}
    /\ ProducedAt(5) # {} => nNum + kCat >= 6

(* C13 witness: a complete pass over exactly six columns with the date and *)
(* the measure set, whose last slot produced the line chart; no other slot *)
(* did.                                                                    *)
C13_Witness ==
    /\ PassComplete
    /\ nNum + kCat = 6
    /\ date_column # NoCol /\ sales_column # NoCol
    /\ ProducedAt(5) = {5}
    /\ ProducedAt(0) = {0}

====
